---------------------------- MODULE Spec2Model ----------------------------
(***************************************************************************)
(* A model of ipresolver (src/python/main.py): the resolve loop, the       *)
(* history / delete / clear operations on the ip_addresses table, the      *)
(* interactive menu, and the pure functions they use (URL normalisation,   *)
(* the hostname regular expression, int() on the id typed by the user).    *)
(*                                                                         *)
(* Text is modelled as a sequence of one-character strings, so that        *)
(* parsing is computed character by character as the code computes it.     *)
(***************************************************************************)
EXTENDS Integers, Sequences, FiniteSets, TLC

VARIABLES
    db,          \* rows of table ip_addresses as committed in ip_addresses.db, in rowid order
    pc,          \* where the process is: "start", "menu", "resolve", "exited", "crashed"
    via,         \* how resolve_ip was entered: "flag" (--resolve), "menu", or "none"
    inp,         \* the text last read from the user (click.prompt), or NoInput
    lookup,      \* the call of socket.gethostbyname made by the last step, or NoCall
    sql,         \* the store accesses of the last step, each tagged with its function
    out,         \* the last message the program printed
    lastInsert,  \* history: the last insert ("pending"), until the table changes again
    maxAssigned  \* history: the largest id any insert has been given so far

vars == <<db, pc, via, inp, lookup, sql, out, lastInsert, maxAssigned>>

---------------------------------------------------------------------------
(* Bounds of the model *)

\* ids above MaxId are not handed out: inserts stop when the next id exceeds it
MaxId == 3
\* longest candidate hostname enumerated for the validator
MaxHostLen == 5
\* longest raw input enumerated for the normaliser
MaxUrlLen == 5

---------------------------------------------------------------------------
(* Characters and strings *)

LowerSeq == <<"a","b","c","d","e","f","g","h","i","j","k","l","m",
              "n","o","p","q","r","s","t","u","v","w","x","y","z">>
UpperSeq == <<"A","B","C","D","E","F","G","H","I","J","K","L","M",
              "N","O","P","Q","R","S","T","U","V","W","X","Y","Z">>
DigitSeq == <<"0","1","2","3","4","5","6","7","8","9">>

Range(s) == {s[i] : i \in DOMAIN s}
Lower == Range(LowerSeq)
Upper == Range(UpperSeq)
Digits == Range(DigitSeq)

\* str.lower() on one character
LowerChar(c) ==
    IF c \in Upper THEN LowerSeq[CHOOSE i \in DOMAIN UpperSeq : UpperSeq[i] = c] ELSE c

\* str.lower()
LowerStr(s) == [i \in DOMAIN s |-> LowerChar(s[i])]

\* s[from:] with from a 1-based index
From(s, from) == SubSeq(s, from, Len(s))

\* str.find(c, start): the first 1-based index >= start holding c, 0 when there is none
Find(s, c, start) ==
    IF \E i \in start..Len(s) : s[i] = c
    THEN CHOOSE i \in start..Len(s) : s[i] = c /\ \A j \in start..(i-1) : s[j] # c
    ELSE 0

\* str.rfind(c): the last index holding c, 0 when there is none
RFind(s, c) ==
    IF \E i \in DOMAIN s : s[i] = c
    THEN CHOOSE i \in DOMAIN s : s[i] = c /\ \A j \in (i+1)..Len(s) : s[j] # c
    ELSE 0

\* all strings over alphabet A of length at most n
Words(A, n) == UNION {[1..k -> A] : k \in 0..n}

\* str.split(c): the pieces between the occurrences of c
RECURSIVE Split(_, _)
Split(s, c) ==
    LET k == Find(s, c, 1)
    IN IF k = 0 THEN <<s>>
       ELSE <<SubSeq(s, 1, k-1)>> \o Split(From(s, k+1), c)

---------------------------------------------------------------------------
(* urllib.parse.urlparse(input_data).hostname, as resolve_ip uses it *)

\* the characters str.lstrip(_WHATWG_C0_CONTROL_OR_SPACE) removes, as far as
\* the model's inputs can spell them
C0ControlOrSpace == {" ", "\t", "\n", "\r"}
\* _UNSAFE_URL_BYTES_TO_REMOVE
UnsafeUrlChars == {"\t", "\r", "\n"}
\* scheme_chars
SchemeChars == Lower \cup Upper \cup Digits \cup {"+", "-", "."}
HexDigits == Digits \cup {"a","b","c","d","e","f","A","B","C","D","E","F"}

RECURSIVE LStrip(_)
LStrip(s) == IF s # <<>> /\ Head(s) \in C0ControlOrSpace THEN LStrip(Tail(s)) ELSE s

RemoveUnsafe(s) == SelectSeq(s, LAMBDA c : c \notin UnsafeUrlChars)

\* _splitnetloc(url, 2): the index of the first of "/", "?", "#" at or after
\* the third character, Len(url)+1 when there is none
NetlocEnd(url) ==
    LET ends == {Find(url, c, 3) : c \in {"/", "?", "#"}} \ {0}
    IN IF ends = {} THEN Len(url) + 1
       ELSE CHOOSE e \in ends : \A f \in ends : e <= f

\* _check_bracketed_host for the hosts the model can meet: an IPv6 literal of
\* hexadecimal groups with an optional %zone (no IPv4 tail, no IPvFuture form)
BracketedHostOk(h) ==
    LET pct == Find(h, "%", 1)
        addr == IF pct = 0 THEN h ELSE SubSeq(h, 1, pct-1)
        zone == IF pct = 0 THEN <<>> ELSE From(h, pct+1)
        zoneOk == pct = 0 \/ (zone # <<>> /\ "%" \notin Range(zone))
        parts == Split(addr, ":")
        n == Len(parts)
        empties == {i \in 1..n : parts[i] = <<>>}
        group(p) == Len(p) \in 1..4 /\ \A i \in DOMAIN p : p[i] \in HexDigits
        gap == \/ empties = {}     /\ n = 8
               \/ \E i \in 2..(n-1) : empties = {i} /\ n <= 8
               \/ empties = {1, 2} /\ n \in 3..9
               \/ empties = {n-1, n} /\ n \in 3..9
               \/ empties = {1, 2, 3} /\ n = 3
    IN zoneOk /\ n >= 3 /\ gap /\ \A i \in (1..n) \ empties : group(parts[i])

\* lines `i = url.find(':')` to the for/else of urlsplit: whether url starts
\* with a scheme, a letter followed by scheme characters up to the first colon
HasScheme(url) ==
    LET i == Find(url, ":", 1)
    IN /\ i > 1
       /\ url[1] \in Lower \cup Upper
       /\ \A k \in 1..(i-1) : url[k] \in SchemeChars

\* the checks urlsplit makes on the netloc it found
CheckedNetloc(netloc) ==
    LET open == "[" \in Range(netloc)
        close == "]" \in Range(netloc)
        rest == From(netloc, Find(netloc, "[", 1) + 1)
    IN [raises |-> \/ open /\ ~close
                   \/ close /\ ~open
                   \/ open /\ close /\ ~BracketedHostOk(SubSeq(rest, 1, Find(rest, "]", 1) - 1)),
        netloc |-> netloc]

\* urlsplit once the scheme is cut off: the netloc follows a leading "//"
SplitNetloc(url) ==
    CheckedNetloc(IF Len(url) >= 2 /\ url[1] = "/" /\ url[2] = "/"
                  THEN SubSeq(url, 3, NetlocEnd(url) - 1)
                  ELSE <<>>)

\* urlsplit once leading blanks and tab, CR, LF are removed
SplitScheme(url) ==
    SplitNetloc(IF HasScheme(url) THEN From(url, Find(url, ":", 1) + 1) ELSE url)

\* urlsplit(url): whether it raises ValueError, and the netloc it finds
urlsplit(input) == SplitScheme(RemoveUnsafe(LStrip(input)))

\* str.partition(c)[0]
Before(s, c) == IF Find(s, c, 1) = 0 THEN s ELSE SubSeq(s, 1, Find(s, c, 1) - 1)

\* hostname.lower() + percent + zone
LowerHost(host) ==
    IF Find(host, "%", 1) = 0 THEN LowerStr(host)
    ELSE LowerStr(Before(host, "%")) \o From(host, Find(host, "%", 1))

\* _hostinfo[0] of the text after the last "@" of the netloc
HostOf(hostinfo) ==
    IF Find(hostinfo, "[", 1) > 0
    THEN Before(From(hostinfo, Find(hostinfo, "[", 1) + 1), "]")
    ELSE Before(hostinfo, ":")

\* ParseResult.netloc read in place of ParseResult.hostname
hostname_of_netloc(netloc) == netloc

\* ParseResult.hostname: the host of the netloc, lower-cased, without
\* credentials and port; <<>> stands for None
hostname_of(netloc) == LowerHost(HostOf(From(netloc, RFind(netloc, "@") + 1)))

\* line 124: hostname = parsed_url.hostname or input_data
HostnameOr(parsed_url, h, input_data) ==
    IF parsed_url.raises THEN [raises |-> TRUE, hostname |-> <<>>]
    ELSE [raises |-> FALSE, hostname |-> IF h # <<>> THEN h ELSE input_data]

NormalizeParsed(parsed_url, input_data) ==
    HostnameOr(parsed_url, hostname_of(parsed_url.netloc), input_data)

\* lines 123-124: parsed_url = urlparse(input_data);
\*                hostname = parsed_url.hostname or input_data
Normalize(input_data) == NormalizeParsed(urlsplit(input_data), input_data)

---------------------------------------------------------------------------
(* is_valid_hostname: re.match(r'^[a-zA-Z0-9-]+(\.[a-zA-Z0-9-]+)+$', hostname) *)

\* the character class [a-zA-Z0-9-]
HostChars == Lower \cup Upper \cup Digits \cup {"-"}

\* The pattern run from position i in matcher state q:
\*   "first"  before the first character of the first label
\*   "label1" inside the first label
\*   "dot"    just after a dot
\*   "labelN" inside a later label, where $ may match: at the end of the
\*            string, or just before a line feed that ends the string
RECURSIVE Match(_, _, _)
Match(s, i, q) ==
    LET atEnd == i > Len(s)
        c == s[i]
    IN CASE q = "first"  -> ~atEnd /\ c \in HostChars /\ Match(s, i+1, "label1")
         [] q = "label1" -> /\ ~atEnd
                            /\ \/ c \in HostChars /\ Match(s, i+1, "label1")
                               \/ c = "." /\ Match(s, i+1, "dot")
         [] q = "dot"    -> ~atEnd /\ c \in HostChars /\ Match(s, i+1, "labelN")
         [] q = "labelN" -> \/ atEnd
                            \/ ~atEnd /\ c = "\n" /\ i = Len(s)
                            \/ ~atEnd /\ c \in HostChars /\ Match(s, i+1, "labelN")
                            \/ ~atEnd /\ c = "." /\ Match(s, i+1, "dot")

\* the pattern with its group made optional: (\.[a-zA-Z0-9-]+)*
is_valid_hostname_optional_group(hostname) ==
    \/ Match(hostname, 1, "first")
    \/ hostname # <<>> /\ Range(hostname) \subseteq Lower \cup Upper \cup Digits \cup {"-"}

\* the truth value of the match object (or None) that is_valid_hostname returns
is_valid_hostname(hostname) == Match(hostname, 1, "first")

---------------------------------------------------------------------------
(* int(record_id) in delete_record *)

Whitespace == {" ", "\t", "\n", "\r"}

RECURSIVE RStrip(_)
RStrip(s) ==
    IF s # <<>> /\ s[Len(s)] \in Whitespace THEN RStrip(SubSeq(s, 1, Len(s)-1)) ELSE s

RECURSIVE WsLStrip(_)
WsLStrip(s) == IF s # <<>> /\ Head(s) \in Whitespace THEN WsLStrip(Tail(s)) ELSE s

DigitValue(c) == (CHOOSE i \in DOMAIN DigitSeq : DigitSeq[i] = c) - 1

RECURSIVE Decimal(_, _)
Decimal(ds, acc) ==
    IF ds = <<>> THEN acc
    ELSE Decimal(Tail(ds), IF Head(ds) = "_" THEN acc ELSE 10 * acc + DigitValue(Head(ds)))

\* int(text): ok is FALSE where int raises ValueError. Surrounding white space
\* is dropped, one sign is allowed, digits may be grouped by single underscores.
ParseInt(text) ==
    LET t == RStrip(WsLStrip(text))
        signed == t # <<>> /\ t[1] \in {"+", "-"}
        body == IF signed THEN Tail(t) ELSE t
        wellFormed == /\ body # <<>>
                      /\ \A i \in DOMAIN body : body[i] \in Digits \cup {"_"}
                      /\ body[1] # "_" /\ body[Len(body)] # "_"
                      /\ \A i \in 1..(Len(body)-1) : ~(body[i] = "_" /\ body[i+1] = "_")
        magnitude == Decimal(body, 0)
    IN IF wellFormed
       THEN [ok |-> TRUE, value |-> IF signed /\ t[1] = "-" THEN -magnitude ELSE magnitude]
       ELSE [ok |-> FALSE, value |-> 0]

---------------------------------------------------------------------------
(* socket.gethostbyname(hostname) *)

\* The name is encoded with the idna codec before any lookup; for ASCII text
\* the codec raises UnicodeError when a label other than the last is empty or
\* a label has 64 or more characters.
IdnaRaises(hostname) ==
    LET labels == Split(hostname, ".")
        n == Len(labels)
    IN hostname # <<>> /\
       \/ \E i \in 1..(n-1) : ~(0 < Len(labels[i]) /\ Len(labels[i]) < 64)
       \/ Len(labels[n]) >= 64
---------------------------------------------------------------------------
(* The values of the state *)

NoInput == <<"">>
NoCall == [called |-> FALSE, arg |-> <<>>, result |-> "none"]
Call(h, r) == [called |-> TRUE, arg |-> h, result |-> r]
NoInsert == [state |-> "none", before |-> <<>>, id |-> 0]

\* a printed message: its kind and the values formatted into it
Msg(kind) == [msg |-> kind, hostname |-> <<>>, ip |-> "", id |-> 0, rows |-> <<>>, exc |-> ""]
\* an uncaught exception: the traceback that ends the process
Traceback(e) == [Msg("traceback") EXCEPT !.exc = e]

\* one access of the store by the operation `by`, and whether it succeeded
Access(by, op, ok) == [by |-> by, op |-> op, ok |-> ok]

\* the addresses the resolver may answer with
IPs == {"93.184.216.34", "10.0.0.7"}
\* what socket.gethostbyname may do for a name the idna codec accepts
Answers == IPs \cup {"gaierror"}

BACK == <<"b","a","c","k">>

\* what the user types at the resolve prompt
ResolveInputs ==
    { BACK,
      <<"a","b",".","c","d">>,                        \* ab.cd
      <<"h",":","/","/","A","b",".","c","d",":","8","/","x">>,  \* h://Ab.cd:8/x
      <<"a","b","c","d">>,                            \* abcd
      <<"a",".",".","b">>,                            \* a..b
      <<"h",":","/","/","[","a">> }                   \* h://[a

\* what the user types at the id prompt of delete_record
IdInputs ==
    {<<DigitSeq[n+1]>> : n \in 0..(MaxId+1)}
    \cup { <<" ","1">>, <<"+","2">>, <<"-","1">>, <<"x","y","z">>, <<"1",".","0">> }

Ids(rows) == {rows[i].id : i \in DOMAIN rows}

SetMax(S) == CHOOSE m \in S : \A x \in S : x <= m

---------------------------------------------------------------------------
(* The record store: table ip_addresses through the global session *)

\* The id SQLite gives a row inserted without one: id is the table's INTEGER
\* PRIMARY KEY declared without AUTOINCREMENT, so it is one more than the
\* largest id now in the table, and 1 in an empty table.
NextId(rows) == IF rows = <<>> THEN 1 ELSE SetMax(Ids(rows)) + 1

\* IPAddress(hostname=..., ip_address=...) once flushed
IPAddress(id, hostname, ip_address) ==
    [id |-> id, hostname |-> hostname, ip_address |-> ip_address]

\* an except clause that leaves the failed transaction's work in place
session_rollback_kept(committed, pending) == pending

\* session.rollback(): the table as last committed; what the open
\* transaction had done to it is dropped
session_rollback(committed, pending) == committed

\* the loop deleting the first row it visits once any row matches
MatchingRow_first(rows, record_id) ==
    IF \E i \in DOMAIN rows : rows[i].id = record_id THEN 1 ELSE 0

\* the loop comparing with <= in place of ==
MatchingRow_atmost(rows, record_id) ==
    IF \E i \in DOMAIN rows : rows[i].id <= record_id
    THEN CHOOSE i \in DOMAIN rows :
            rows[i].id <= record_id /\ \A j \in 1..(i-1) : rows[j].id > record_id
    ELSE 0

\* the index of the row the loop of delete_record stops at: the first whose
\* id equals record_id, 0 when the loop runs to its end
MatchingRow(rows, record_id) ==
    IF \E i \in DOMAIN rows : rows[i].id = record_id
    THEN CHOOSE i \in DOMAIN rows :
            rows[i].id = record_id /\ \A j \in 1..(i-1) : rows[j].id # record_id
    ELSE 0

\* the table without its i-th row
WithoutRow(rows, i) == SubSeq(rows, 1, i-1) \o SubSeq(rows, i+1, Len(rows))

\* What an operation leaves behind: the table, the message, the store
\* accesses made, and whether an exception left the operation uncaught.
Outcome(rows, message, accesses, raised) ==
    [db |-> rows, out |-> message, sql |-> accesses, raised |-> raised]

\* store_ip_address(hostname, ip_address): add, commit, close
store_ip_address(rows, hostname, ip_address, fault) ==
    IF fault = "commit"
    THEN Outcome(rows, Traceback("SQLAlchemyError"),
                 <<Access("store_ip_address", "insert", FALSE)>>, TRUE)
    ELSE Outcome(Append(rows, IPAddress(NextId(rows), hostname, ip_address)),
                 Msg("none"),
                 <<Access("store_ip_address", "insert", TRUE)>>, FALSE)

\* display_ip_history(): the table of the rows, or the note that there are none
display_ip_history(rows, fault) ==
    IF fault = "display"
    THEN Outcome(rows, Traceback("SQLAlchemyError"),
                 <<Access("display_ip_history", "select", FALSE)>>, TRUE)
    ELSE Outcome(rows,
                 IF rows # <<>> THEN [Msg("table") EXCEPT !.rows = rows]
                 ELSE Msg("no_history"),
                 <<Access("display_ip_history", "select", TRUE)>>, FALSE)

\* lines 148-158 of delete_record, with n what int(record_id) gave
delete_parsed(rows, n, i, fault) ==
    IF ~n.ok THEN Outcome(rows, Msg("invalid_id"), <<>>, FALSE)
    ELSE IF fault = "select"
    THEN Outcome(rows, Traceback("SQLAlchemyError"),
                 <<Access("delete_record", "select", FALSE)>>, TRUE)
    ELSE IF i = 0
    THEN Outcome(rows, [Msg("not_found") EXCEPT !.id = n.value],
                 <<Access("delete_record", "select", TRUE)>>, FALSE)
    ELSE IF fault = "commit"
    THEN Outcome(rows, Traceback("SQLAlchemyError"),
                 <<Access("delete_record", "select", TRUE),
                   Access("delete_record", "delete", FALSE)>>, TRUE)
    ELSE Outcome(WithoutRow(rows, i), [Msg("deleted") EXCEPT !.id = n.value],
                 <<Access("delete_record", "select", TRUE),
                   Access("delete_record", "delete", TRUE)>>, FALSE)

delete_id(rows, n, fault) == delete_parsed(rows, n, MatchingRow(rows, n.value), fault)

\* delete_record() with record_id the text typed at its prompt
delete_record(rows, record_id, fault) == delete_id(rows, ParseInt(record_id), fault)

\* clear_database(): delete every row and commit; SQLAlchemyError from either
\* is caught, the session rolled back and the error printed
clear_database(rows, fault) ==
    IF fault = "delete"
    THEN Outcome(session_rollback(rows, rows), Msg("clear_error"),
                 <<Access("clear_database", "delete", FALSE),
                   Access("clear_database", "rollback", TRUE)>>, FALSE)
    ELSE IF fault = "commit"
    THEN Outcome(session_rollback(rows, <<>>), Msg("clear_error"),
                 <<Access("clear_database", "delete", TRUE),
                   Access("clear_database", "commit", FALSE),
                   Access("clear_database", "rollback", TRUE)>>, FALSE)
    ELSE Outcome(<<>>, Msg("cleared"),
                 <<Access("clear_database", "delete", TRUE),
                   Access("clear_database", "commit", TRUE)>>, FALSE)
---------------------------------------------------------------------------
(* resolve_ip: one turn of its loop *)

\* the sentinel taken to be the word the prompt ends with ("... to quit")
IsSentinel_quit(input_data) == input_data = <<"q","u","i","t">>

\* line 118: input_data == 'back'
IsSentinel(input_data) == input_data = BACK

\* socket.gethostbyname(hostname): UnicodeError from the idna codec, else what
\* the platform resolver answers (an address, or gaierror)
gethostbyname(hostname, answer) == IF IdnaRaises(hostname) THEN "UnicodeError" ELSE answer

\* What one turn leaves behind: as Outcome, with the resolver call made and
\* whether the loop was left by break.
Turn(o, call, broke) ==
    [db |-> o.db, out |-> o.out, sql |-> o.sql, raised |-> o.raised,
     lookup |-> call, broke |-> broke]

\* lines 127-131: the address is stored and printed
resolve_store(stored, hostname, ip_address) ==
    IF stored.raised
    THEN Turn(stored, Call(hostname, ip_address), FALSE)
    ELSE Turn(Outcome(stored.db,
                      [Msg("resolved") EXCEPT !.hostname = hostname, !.ip = ip_address],
                      stored.sql, FALSE),
              Call(hostname, ip_address), FALSE)

\* lines 126-134 with ip_address what gethostbyname(hostname) did. Only
\* socket.gaierror is caught; the handler formats the local variable hostname,
\* assigned at line 124 before the resolver was called.
resolve_hostname(rows, hostname, ip_address, fault) ==
    IF ip_address = "UnicodeError"
    THEN Turn(Outcome(rows, Traceback("UnicodeError"), <<>>, TRUE),
              Call(hostname, ip_address), FALSE)
    ELSE IF ip_address = "gaierror"
    THEN Turn(Outcome(rows, [Msg("unresolved") EXCEPT !.hostname = hostname], <<>>, FALSE),
              Call(hostname, ip_address), FALSE)
    ELSE resolve_store(store_ip_address(rows, hostname, ip_address, fault),
                       hostname, ip_address)

\* lines 123-134 with n what lines 123-124 did
resolve_normalized(rows, n, answer, fault) ==
    IF n.raises
    THEN Turn(Outcome(rows, Traceback("ValueError"), <<>>, TRUE), NoCall, FALSE)
    ELSE resolve_hostname(rows, n.hostname, gethostbyname(n.hostname, answer), fault)

\* lines 110-134: one turn of the loop for the text typed at the prompt
resolve_ip_turn(rows, input_data, answer, fault) ==
    IF IsSentinel(input_data)
    THEN Turn(Outcome(rows, Msg("aborted"), <<>>, FALSE), NoCall, TRUE)
    ELSE resolve_normalized(rows, Normalize(input_data), answer, fault)

\* where control goes when resolve_ip returns: back to the menu loop of
\* get_hostname_ip (line 203), or out of the command when --resolve was given
AfterResolve(entered) == IF entered = "menu" THEN "menu" ELSE "exited"

---------------------------------------------------------------------------
(* History variables *)

\* lastInsert after a step that took the table from `before` to `after`: an
\* insert is "pending" with the table as it was before it; it is "undone" when
\* the next change of the table gives that table back, and forgotten otherwise
InsertHistory(before, after, last) ==
    IF after = before THEN last
    ELSE IF Len(after) = Len(before) + 1
    THEN [state |-> "pending", before |-> before, id |-> after[Len(after)].id]
    ELSE IF last.state = "pending" /\ after = last.before
    THEN [last EXCEPT !.state = "undone"]
    ELSE NoInsert

\* maxAssigned after such a step
AssignedHistory(before, after, m) ==
    IF Len(after) = Len(before) + 1 /\ after[Len(after)].id > m
    THEN after[Len(after)].id ELSE m

---------------------------------------------------------------------------
(* The process *)

Init ==
    /\ db = <<>>
    /\ pc = "start"
    /\ via = "none"
    /\ inp = NoInput
    /\ lookup = NoCall
    /\ sql = <<>>
    /\ out = Msg("none")
    /\ lastInsert = NoInsert
    /\ maxAssigned = 0

\* an operation run to its end from the command line or the menu, after
\* which the command returns (or dies of the exception)
Finish(o, text) ==
    /\ db' = o.db
    /\ pc' = IF o.raised THEN "crashed" ELSE "exited"
    /\ via' = "none"
    /\ inp' = text
    /\ lookup' = NoCall
    /\ sql' = o.sql
    /\ out' = o.out
    /\ lastInsert' = InsertHistory(db, o.db, lastInsert)
    /\ maxAssigned' = AssignedHistory(db, o.db, maxAssigned)

\* lines 22-28: Base.metadata.create_all(engine) raises, before the command runs
StartFail ==
    /\ pc = "start"
    /\ Finish(Outcome(db, Traceback("startup"), <<Access("startup", "create_all", FALSE)>>, TRUE),
              NoInput)

\* --resolve
StartResolve ==
    /\ pc = "start"
    /\ pc' = "resolve"
    /\ via' = "flag"
    /\ UNCHANGED <<db, inp, lookup, sql, out, lastInsert, maxAssigned>>

\* --history
StartHistory(fault) ==
    /\ pc = "start"
    /\ Finish(display_ip_history(db, fault), NoInput)

\* --delete
StartDelete(record_id, fault) ==
    /\ pc = "start"
    /\ Finish(delete_record(db, record_id, fault), record_id)

\* --clear
StartClear(fault) ==
    /\ pc = "start"
    /\ Finish(clear_database(db, fault), NoInput)

\* no flag: the menu is shown
StartMenu ==
    /\ pc = "start"
    /\ pc' = "menu"
    /\ UNCHANGED <<db, via, inp, lookup, sql, out, lastInsert, maxAssigned>>

\* menu: "Exit"
MenuExit ==
    /\ pc = "menu"
    /\ Finish(Outcome(db, Msg("aborted"), <<>>, FALSE), NoInput)

\* menu: "Display IP History"
MenuHistory(fault) ==
    /\ pc = "menu"
    /\ Finish(display_ip_history(db, fault), NoInput)

\* display_ip_history() then delete_record(), lines 215-216
display_then_delete(shown, deleted) ==
    IF shown.raised THEN shown ELSE [deleted EXCEPT !.sql = shown.sql \o deleted.sql]

\* menu: "Delete a record": the history is shown, then delete_record runs
MenuDelete(record_id, fault) ==
    /\ pc = "menu"
    /\ Finish(display_then_delete(display_ip_history(db, fault),
                                  delete_record(db, record_id, fault)),
              IF fault = "display" THEN NoInput ELSE record_id)

\* menu: "Resolve and Store IP Address"
MenuResolve ==
    /\ pc = "menu"
    /\ pc' = "resolve"
    /\ via' = "menu"
    /\ UNCHANGED <<db, inp, lookup, sql, out, lastInsert, maxAssigned>>

\* the state after a turn of the loop that did r
TakeTurn(r, input_data) ==
    /\ r.db # db => NextId(db) <= MaxId
    /\ db' = r.db
    /\ pc' = IF r.raised THEN "crashed"
             ELSE IF r.broke THEN AfterResolve(via)
             ELSE "resolve"
    /\ via' = IF r.raised \/ r.broke THEN "none" ELSE via
    /\ inp' = input_data
    /\ lookup' = r.lookup
    /\ sql' = r.sql
    /\ out' = r.out
    /\ lastInsert' = InsertHistory(db, r.db, lastInsert)
    /\ maxAssigned' = AssignedHistory(db, r.db, maxAssigned)

\* one turn of the loop of resolve_ip
ResolveTurn(input_data, answer, fault) ==
    /\ pc = "resolve"
    /\ TakeTurn(resolve_ip_turn(db, input_data, answer, fault), input_data)

\* the user runs the program again on the same ip_addresses.db
Restart ==
    /\ pc \in {"exited", "crashed"}
    /\ pc' = "start"
    /\ via' = "none"
    /\ inp' = NoInput
    /\ lookup' = NoCall
    /\ sql' = <<>>
    /\ out' = Msg("none")
    /\ UNCHANGED <<db, lastInsert, maxAssigned>>

Next ==
    \/ StartFail
    \/ StartResolve
    \/ \E fault \in {"none", "display"} : StartHistory(fault)
    \/ \E record_id \in IdInputs, fault \in {"none", "select", "commit"} :
          StartDelete(record_id, fault)
    \/ \E fault \in {"none", "delete", "commit"} : StartClear(fault)
    \/ StartMenu
    \/ MenuExit
    \/ \E fault \in {"none", "display"} : MenuHistory(fault)
    \/ \E record_id \in IdInputs, fault \in {"none", "display", "select", "commit"} :
          MenuDelete(record_id, fault)
    \/ MenuResolve
    \/ \E input_data \in ResolveInputs, answer \in Answers, fault \in {"none", "commit"} :
          ResolveTurn(input_data, answer, fault)
    \/ Restart

Spec == Init /\ [][Next]_vars
---------------------------------------------------------------------------
(* The pure functions on their own: each applied once to every text of a   *)
(* bounded set                                                             *)

\* "example.com"
ExampleCom == <<"e","x","a","m","p","l","e",".","c","o","m">>
HttpPrefix == <<"h","t","t","p",":","/","/">>

\* candidate hostnames: every text over these characters up to MaxHostLen
HostAlphabet == {"a", "A", "1", "-", ".", "_", "\n"}
HostCandidates ==
    Words(HostAlphabet, MaxHostLen)
    \cup { ExampleCom, ExampleCom \o <<"\n">>, <<"E","x",".","C","O","M">> }

\* raw inputs: every text over these characters up to MaxUrlLen, and the
\* longer ones worth a look
UrlAlphabet == {"a", "B", ".", ":", "/", "?", "[", "@", " "}
RawInputs ==
    Words(UrlAlphabet, MaxUrlLen)
    \cup { ExampleCom,
           HttpPrefix \o ExampleCom \o <<"/","p","a","t","h">>,
           HttpPrefix \o ExampleCom \o <<":","8","0","8","0","/">>,
           HttpPrefix \o <<"u",":","p","@">> \o ExampleCom \o <<"?","q">>,
           <<"n","o","t"," ","a"," ","u","r","l">>,
           <<" ">> \o ExampleCom \o <<" ">>,
           HttpPrefix \o <<"[",":",":","1">> }

PureInit(texts, at) ==
    /\ inp \in texts
    /\ pc = at
    /\ out = Msg("none")
    /\ db = <<>>
    /\ via = "none"
    /\ lookup = NoCall
    /\ sql = <<>>
    /\ lastInsert = NoInsert
    /\ maxAssigned = 0

\* what lines 123-124 make of the text: the hostname, or the ValueError
NormalizeResult(n) ==
    IF n.raises THEN Traceback("ValueError")
    ELSE [Msg("normalized") EXCEPT !.hostname = n.hostname]

NormalizeInput ==
    /\ pc = "normalize"
    /\ pc' = "normalized"
    /\ out' = NormalizeResult(Normalize(inp))
    /\ UNCHANGED <<db, via, inp, lookup, sql, lastInsert, maxAssigned>>

InitNormalize == PureInit(RawInputs, "normalize")
NextNormalize == NormalizeInput
SpecNormalize == InitNormalize /\ [][NextNormalize]_vars

ValidateInput ==
    /\ pc = "validate"
    /\ pc' = "validated"
    /\ out' = Msg(IF is_valid_hostname(inp) THEN "valid" ELSE "invalid")
    /\ UNCHANGED <<db, via, inp, lookup, sql, lastInsert, maxAssigned>>

InitValidate == PureInit(HostCandidates, "validate")
NextValidate == ValidateInput
SpecValidate == InitValidate /\ [][NextValidate]_vars
---------------------------------------------------------------------------
(* Notions the properties below are stated with *)

\* s is two or more non-empty labels over [A-Za-z0-9-] separated by dots
IsDottedName(s) ==
    LET labels == Split(s, ".")
    IN /\ Len(labels) >= 2
       /\ \A i \in DOMAIN labels :
             labels[i] # <<>> /\ Range(labels[i]) \subseteq HostChars

\* the validator as section 4.2 of the specification states it
SpecifiedValid(s) == IsDottedName(s) /\ Len(s) > 4

\* s without the one line feed that may end it
WithoutFinalLF(s) ==
    IF s # <<>> /\ s[Len(s)] = "\n" THEN SubSeq(s, 1, Len(s) - 1) ELSE s

\* sub occurs in s at position i
OccursAt(s, sub, i) == i >= 1 /\ SubSeq(s, i, i + Len(sub) - 1) = sub

Contains(s, sub) == \E i \in 1..(Len(s) - Len(sub) + 1) : OccursAt(s, sub, i)

\* str.strip()
Trim(s) == RStrip(WsLStrip(s))

\* every access of the store made by the last step succeeded
StoreAnswered(accesses) == \A i \in DOMAIN accesses : accesses[i].ok

\* the last step ran delete_record and the user typed an id
DeleteStep ==
    /\ pc \in {"start", "menu"}
    /\ pc' \in {"exited", "crashed"}
    /\ inp' # NoInput

---------------------------------------------------------------------------
(* The properties *)

\* C1: a candidate hostname that fails the validator (not a dotted name, or
\* of length <= 4) never reaches the resolver and is never stored: every
\* resolver call, and every stored hostname, is of a name the validator accepts.
C1_InvalidNeverResolved ==
    /\ lookup.called => SpecifiedValid(lookup.arg)
    /\ out.msg = "resolved" => SpecifiedValid(out.hostname)

\* C2: whenever the resolver fails, whatever the failure, the store is not
\* touched, the error printed names the hostname the resolver was called
\* with in this turn, and the loop prompts again.
C2_ResolverFailureReported ==
    (lookup.called /\ lookup.result \notin IPs) =>
        /\ sql = <<>>
        /\ out.msg = "unresolved"
        /\ out.hostname = lookup.arg
        /\ pc = "resolve"

\* C3: typing "back" at the resolve prompt, in any turn, leaves the loop
\* without calling the resolver and without touching the store; control
\* goes back to the menu when the loop was entered from it.
C3_BackLeavesLoop ==
    [][(pc = "resolve" /\ inp' = BACK) =>
          /\ lookup' = NoCall
          /\ sql' = <<>>
          /\ db' = db
          /\ out'.msg = "aborted"
          /\ (via = "menu" => pc' = "menu")
          /\ (via = "flag" => pc' = "exited")]_vars

\* "back" typed in a loop entered from the menu after an address was stored
C3_Witness ==
    /\ pc = "menu"
    /\ inp = BACK
    /\ out.msg = "aborted"
    /\ lastInsert.state = "pending"
    /\ Len(db) >= 2

\* C4: the id given by an insert is greater than every id given by an
\* earlier insert, also those of rows deleted or cleared since.
C4_IdsNeverReused ==
    [][Len(db') = Len(db) + 1 => db'[Len(db')].id > maxAssigned]_vars

\* C5: clear is all or nothing: when every storage operation succeeds the
\* table is empty afterwards (an empty table included), and when one fails
\* the table is what it was and the failure is printed; the command returns.
C5_ClearAllOrNothing ==
    [][(pc = "start" /\ sql' # <<>> /\ sql'[1].by = "clear_database") =>
          /\ pc' = "exited"
          /\ db' \in {<<>>, db}
          /\ StoreAnswered(sql') => (out'.msg = "cleared" /\ db' = <<>>)
          /\ ~StoreAnswered(sql') => (out'.msg = "clear_error" /\ db' = db)]_vars

\* a failed clear of a table of several rows
C5_Witness == out.msg = "clear_error" /\ Len(db) >= 2

\* C6: an insert appends exactly one row, with the hostname and address
\* resolved and an id no row has, and leaves the other rows as they were;
\* deleting that id next reports success and gives back the table as it was
\* before the insert.
C6_RoundTrip ==
    [][/\ (pc = "resolve" /\ out'.msg = "resolved") =>
             /\ Len(db') = Len(db) + 1
             /\ SubSeq(db', 1, Len(db)) = db
             /\ db'[Len(db')].hostname = lookup'.arg
             /\ db'[Len(db')].hostname = out'.hostname
             /\ db'[Len(db')].ip_address = lookup'.result
             /\ db'[Len(db')].ip_address = out'.ip
             /\ db'[Len(db')].id \notin Ids(db)
       /\ (/\ DeleteStep
           /\ lastInsert.state = "pending"
           /\ inp' = <<DigitSeq[lastInsert.id + 1]>>
           /\ StoreAnswered(sql')) =>
             /\ out'.msg = "deleted"
             /\ out'.id = lastInsert.id
             /\ db' = lastInsert.before
             /\ Len(db') = Len(db) - 1]_vars

\* an insert into a table that had rows, undone by the delete of its id
C6_Witness ==
    /\ lastInsert.state = "undone"
    /\ out.msg = "deleted"
    /\ out.id = lastInsert.id
    /\ db = lastInsert.before
    /\ db # <<>>

\* C7: a delete that cannot succeed leaves the table as it was: text that
\* int() rejects is reported as invalid before delete_record touches the
\* store, and a number no row has as id is reported as not found.
C7_FailedDeleteKeepsStore ==
    [][DeleteStep =>
          /\ ~ParseInt(inp').ok =>
                /\ out'.msg = "invalid_id"
                /\ db' = db
                /\ \A i \in DOMAIN sql' : sql'[i].by # "delete_record"
          /\ (/\ ParseInt(inp').ok
              /\ ParseInt(inp').value \notin Ids(db)
              /\ StoreAnswered(sql')) =>
                /\ out'.msg = "not_found"
                /\ out'.id = ParseInt(inp').value
                /\ db' = db
          /\ out'.msg \in {"invalid_id", "not_found"} => db' = db]_vars

\* a number that matches no row of a table of several rows
C7_Witness == out.msg = "not_found" /\ Len(db) >= 2 /\ out.id \notin Ids(db)

\* C8: once the program has started, no error ends the process: only the
\* failure of the storage set-up at startup does.
C8_NoErrorTerminates == pc = "crashed" => out.exc = "startup"

=============================================================================
